---- MODULE Spec2Model ----
(***************************************************************************)
(* Model of the Scotopia backend: the deposit listener handler and the    *)
(* POST /api/mint handler of server.ts, the verifier (verifyDeposit,      *)
(* checkDuplicate), the privacy tier classifier (getPrivacyTier) and the  *)
(* MinterService (mintAttestation), over the two SQLite tables deposits   *)
(* and attestations.                                                       *)
(*                                                                         *)
(* Node runs every handler to its first await without interruption.  The  *)
(* only await that lets other handlers run is the minting capability call *)
(* of ethereum mode (network I/O); the mock and solana capabilities are   *)
(* async functions that return at once, so their continuation runs in the *)
(* microtask queue before any other event or request is dispatched.       *)
(*                                                                         *)
(* Amounts are integers (whole currency units); Date.now() is the clock   *)
(* variable now, counted in milliseconds from an arbitrary origin.  The   *)
(* runs of the server specifications (Spec, SpecMint, SpecPrivacy) are    *)
(* short enough to fall within one millisecond: their actions read the    *)
(* clock and do not advance it.  SpecVerify calls verifyDeposit directly  *)
(* and lets the clock advance between calls; SpecTier and SpecDuplicate   *)
(* call the pure functions getPrivacyTier and checkDuplicate.  SpecToken  *)
(* sends transactions to the IOUSoulbound contract; the ERC721 and        *)
(* Ownable functions it inherits follow OpenZeppelin Contracts v5.        *)
(***************************************************************************)
EXTENDS Integers, Sequences, FiniteSets, TLC

\* ------------------------------------------------------------- bounds
MaxEvents == 2
MaxRequests == 2
MaxFaults == 1
MaxCalls == 3
MaxVerifyCalls == 13
MaxOtherCalls == 1
MaxTicks == 2
MaxTiers == 3
MaxPriors == 3
MaxMints == 2
StartTime == 90000000

\* ---------------------------------------------------------- constants
RATE_LIMIT_WINDOW_MS == 60000
MAX_EVENTS_PER_WINDOW == 10
FRESHNESS_MS == 24 * 60 * 60 * 1000
FUTURE_SKEW_MS == 60000
MIN_WALLET_LENGTH == 20

Tiers ==
  << [name |-> "Tier A", threshold |-> 100],
     [name |-> "Tier B", threshold |-> 10],
     [name |-> "Tier C", threshold |-> 1] >>

AdminApiKey == "default-admin-key"
NoReason == "none"
DbError == "SQLITE_ERROR"
CapErrors == {"network error"}

\* ------------------------------------------------------ input universe
WalletA == "0x3FfC1234567890abcdef1234567890ABCDEFABCD"
WalletB == "0x4A8b567890ABCDEFabcdef1234567890abcdef1234"
Wallet20 == "0x3FfC1234567890abcd"
Wallet19 == "0x3FfC1234567890abc"
DepositIds == {"d1", "d2"}
TxIds == {"tx1", "tx2"}

\* Shapes of incoming events: wallet, amount, and the offset of the
\* producer-supplied timestamp from the time of delivery.
EventShapes ==
  { [wallet |-> WalletA, amount |-> 150, offset |-> 0],
    [wallet |-> WalletA, amount |-> 0, offset |-> 0] }

\* Configurations loadConfig can return: the mode and whether the external
\* endpoints and the signing credential of that mode are present.
Configs ==
  { [mode |-> "mock", rpcUrl |-> FALSE, contractAddress |-> FALSE, privateKey |-> FALSE, solanaRpcUrl |-> FALSE],
    [mode |-> "ethereum", rpcUrl |-> TRUE, contractAddress |-> TRUE, privateKey |-> TRUE, solanaRpcUrl |-> TRUE],
    [mode |-> "ethereum", rpcUrl |-> FALSE, contractAddress |-> TRUE, privateKey |-> TRUE, solanaRpcUrl |-> TRUE],
    [mode |-> "ethereum", rpcUrl |-> TRUE, contractAddress |-> FALSE, privateKey |-> TRUE, solanaRpcUrl |-> TRUE],
    [mode |-> "ethereum", rpcUrl |-> TRUE, contractAddress |-> TRUE, privateKey |-> FALSE, solanaRpcUrl |-> TRUE],
    [mode |-> "solana", rpcUrl |-> TRUE, contractAddress |-> TRUE, privateKey |-> TRUE, solanaRpcUrl |-> TRUE],
    [mode |-> "solana", rpcUrl |-> TRUE, contractAddress |-> TRUE, privateKey |-> TRUE, solanaRpcUrl |-> FALSE] }

VARIABLES
  config,        \* the Config object of loadConfig
  phase,         \* "init" | "running" | "exited" (start / process.exit)
  faults,        \* number of SQLite statements that have thrown
  now,           \* Date.now()
  deposits,      \* table deposits: id -> row
  attestations,  \* table attestations: set of rows
  rateLimitMap,  \* verifier.ts rateLimitMap: wallet -> timestamps
  inflight,      \* mintAttestation calls awaiting the minting capability
  delivered,     \* number of 'deposit' events the listener has emitted
  requested,     \* number of POST /api/mint requests received
  nextUuid,      \* uuidv4 generator
  last,          \* what the last handler step did (history)
  notified,      \* every notification io.emit has sent (history)
  capFailed,     \* deposits for which a capability call has failed (history)
  eligible,      \* deposits whose event passed the Verifier with no prior
                 \* deposit sharing its identifier or transaction (history)
  succeeded,     \* deposits for which mintAttestation returned success (history)
  accepted,      \* wallet -> times of the verifyDeposit calls that returned valid (history)
  verifyCalls,   \* number of direct verifyDeposit calls
  otherCalls,    \* number of those not made with the sample deposit
  ticks,         \* number of times the clock has advanced
  chain,         \* storage of the deployed IOUSoulbound contract
  issued         \* token id -> recipient of the mint that returned it (history)

vars == << config, phase, faults, now, deposits, attestations, rateLimitMap,
           inflight, delivered, requested, nextUuid, last, notified, capFailed,
           eligible, succeeded, accepted, verifyCalls, otherCalls, ticks, chain, issued >>

\* ------------------------------------------------------------ privacy.ts

RECURSIVE InsertSorted(_, _)
\* Array.prototype.sort is stable: t goes after the elements it does not
\* precede under (a, b) => b.threshold - a.threshold.
InsertSorted(t, s) ==
  IF s = << >> THEN << t >>
  ELSE IF t.threshold > Head(s).threshold THEN << t >> \o s
  ELSE << Head(s) >> \o InsertSorted(t, Tail(s))

RECURSIVE SortDesc(_)
SortDesc(tiers) ==
  IF tiers = << >> THEN << >>
  ELSE InsertSorted(tiers[Len(tiers)], SortDesc(SubSeq(tiers, 1, Len(tiers) - 1)))

RECURSIVE FirstMatch(_, _)
FirstMatch(amount, sortedTiers) ==
  IF sortedTiers = << >>
  THEN [tier |-> "No Tier", amount |-> 0, originalAmount |-> amount]
  ELSE IF amount >= Head(sortedTiers).threshold
  THEN [tier |-> Head(sortedTiers).name, amount |-> Head(sortedTiers).threshold,
        originalAmount |-> amount]
  ELSE FirstMatch(amount, Tail(sortedTiers))

\* Mutant: the table is not sorted.
getPrivacyTierUnsorted(amount, tiers) == FirstMatch(amount, tiers)

\* Mutant: the fallback carries the amount.
getPrivacyTierLeaky(amount, tiers) ==
  LET found == FirstMatch(amount, SortDesc(tiers))
  IN IF found.tier = "No Tier" THEN [found EXCEPT !.amount = amount] ELSE found

getPrivacyTier(amount, tiers) == FirstMatch(amount, SortDesc(tiers))

\* ----------------------------------------------------------- verifier.ts

RECURSIVE Filter(_, _)
Filter(s, t) ==
  IF s = << >> THEN << >>
  ELSE IF t - Head(s) < RATE_LIMIT_WINDOW_MS THEN << Head(s) >> \o Filter(Tail(s), t)
  ELSE Filter(Tail(s), t)

\* Mutant: an entry left without timestamps stays in the map.
cleanupKeepsEmpty(map, t) == [w \in DOMAIN map |-> Filter(map[w], t)]

\* Mutant: entries are never pruned.
cleanupNothing(map, t) == map

cleanupOldEntries(map, t) ==
  LET kept == { w \in DOMAIN map : Filter(map[w], t) # << >> }
  IN [w \in kept |-> Filter(map[w], t)]

\* Mutant: the wallet check comes before the amount check.
verifyDepositWalletFirst(deposit, map, t) ==
  IF deposit.wallet = "" \/ Len(deposit.wallet) < MIN_WALLET_LENGTH
  THEN [valid |-> FALSE, reason |-> "Invalid wallet address", map |-> map]
  ELSE IF deposit.amount <= 0
  THEN [valid |-> FALSE, reason |-> "Amount must be greater than 0", map |-> map]
  ELSE IF deposit.timestamp < t - FRESHNESS_MS
  THEN [valid |-> FALSE, reason |-> "Deposit timestamp too old", map |-> map]
  ELSE IF deposit.timestamp > t + FUTURE_SKEW_MS
  THEN [valid |-> FALSE, reason |-> "Deposit timestamp in future", map |-> map]
  ELSE IF deposit.wallet = "" \/ Len(deposit.wallet) < MIN_WALLET_LENGTH
  THEN [valid |-> FALSE, reason |-> "Invalid wallet address", map |-> map]
  ELSE LET cleaned == cleanupOldEntries(map, t)
           entry == IF deposit.wallet \in DOMAIN cleaned THEN cleaned[deposit.wallet] ELSE << >>
       IN IF Len(entry) >= MAX_EVENTS_PER_WINDOW
          THEN [valid |-> FALSE, reason |-> "Rate limit exceeded", map |-> cleaned]
          ELSE [valid |-> TRUE, reason |-> NoReason,
                map |-> [w \in DOMAIN cleaned \cup {deposit.wallet} |->
                           IF w = deposit.wallet THEN Append(entry, t) ELSE cleaned[w]]]

\* Mutant: a timestamp exactly 24 hours old is rejected.
verifyDepositStrictOld(deposit, map, t) ==
  IF deposit.amount <= 0
  THEN [valid |-> FALSE, reason |-> "Amount must be greater than 0", map |-> map]
  ELSE IF deposit.timestamp <= t - FRESHNESS_MS
  THEN [valid |-> FALSE, reason |-> "Deposit timestamp too old", map |-> map]
  ELSE IF deposit.timestamp > t + FUTURE_SKEW_MS
  THEN [valid |-> FALSE, reason |-> "Deposit timestamp in future", map |-> map]
  ELSE IF deposit.wallet = "" \/ Len(deposit.wallet) < MIN_WALLET_LENGTH
  THEN [valid |-> FALSE, reason |-> "Invalid wallet address", map |-> map]
  ELSE LET cleaned == cleanupOldEntries(map, t)
           entry == IF deposit.wallet \in DOMAIN cleaned THEN cleaned[deposit.wallet] ELSE << >>
       IN IF Len(entry) >= MAX_EVENTS_PER_WINDOW
          THEN [valid |-> FALSE, reason |-> "Rate limit exceeded", map |-> cleaned]
          ELSE [valid |-> TRUE, reason |-> NoReason,
                map |-> [w \in DOMAIN cleaned \cup {deposit.wallet} |->
                           IF w = deposit.wallet THEN Append(entry, t) ELSE cleaned[w]]]

\* Mutant: the ceiling is compared with > instead of >=.
verifyDepositOffByOne(deposit, map, t) ==
  IF deposit.amount <= 0
  THEN [valid |-> FALSE, reason |-> "Amount must be greater than 0", map |-> map]
  ELSE IF deposit.timestamp < t - FRESHNESS_MS
  THEN [valid |-> FALSE, reason |-> "Deposit timestamp too old", map |-> map]
  ELSE IF deposit.timestamp > t + FUTURE_SKEW_MS
  THEN [valid |-> FALSE, reason |-> "Deposit timestamp in future", map |-> map]
  ELSE IF deposit.wallet = "" \/ Len(deposit.wallet) < MIN_WALLET_LENGTH
  THEN [valid |-> FALSE, reason |-> "Invalid wallet address", map |-> map]
  ELSE LET cleaned == cleanupOldEntries(map, t)
           entry == IF deposit.wallet \in DOMAIN cleaned THEN cleaned[deposit.wallet] ELSE << >>
       IN IF Len(entry) > MAX_EVENTS_PER_WINDOW
          THEN [valid |-> FALSE, reason |-> "Rate limit exceeded", map |-> cleaned]
          ELSE [valid |-> TRUE, reason |-> NoReason,
                map |-> [w \in DOMAIN cleaned \cup {deposit.wallet} |->
                           IF w = deposit.wallet THEN Append(entry, t) ELSE cleaned[w]]]

\* Mutant: one ceiling for all wallets together.
verifyDepositSharedLimit(deposit, map, t) ==
  IF deposit.amount <= 0
  THEN [valid |-> FALSE, reason |-> "Amount must be greater than 0", map |-> map]
  ELSE IF deposit.timestamp < t - FRESHNESS_MS
  THEN [valid |-> FALSE, reason |-> "Deposit timestamp too old", map |-> map]
  ELSE IF deposit.timestamp > t + FUTURE_SKEW_MS
  THEN [valid |-> FALSE, reason |-> "Deposit timestamp in future", map |-> map]
  ELSE IF deposit.wallet = "" \/ Len(deposit.wallet) < MIN_WALLET_LENGTH
  THEN [valid |-> FALSE, reason |-> "Invalid wallet address", map |-> map]
  ELSE LET cleaned == cleanupOldEntries(map, t)
           entry == IF deposit.wallet \in DOMAIN cleaned THEN cleaned[deposit.wallet] ELSE << >>
           all == UNION { { << w, i >> : i \in DOMAIN cleaned[w] } : w \in DOMAIN cleaned }
       IN IF Cardinality(all) >= MAX_EVENTS_PER_WINDOW
          THEN [valid |-> FALSE, reason |-> "Rate limit exceeded", map |-> cleaned]
          ELSE [valid |-> TRUE, reason |-> NoReason,
                map |-> [w \in DOMAIN cleaned \cup {deposit.wallet} |->
                           IF w = deposit.wallet THEN Append(entry, t) ELSE cleaned[w]]]

\* Mutant: a call rejected by the rate limit is recorded as well.
verifyDepositCountsRejected(deposit, map, t) ==
  IF deposit.amount <= 0
  THEN [valid |-> FALSE, reason |-> "Amount must be greater than 0", map |-> map]
  ELSE IF deposit.timestamp < t - FRESHNESS_MS
  THEN [valid |-> FALSE, reason |-> "Deposit timestamp too old", map |-> map]
  ELSE IF deposit.timestamp > t + FUTURE_SKEW_MS
  THEN [valid |-> FALSE, reason |-> "Deposit timestamp in future", map |-> map]
  ELSE IF deposit.wallet = "" \/ Len(deposit.wallet) < MIN_WALLET_LENGTH
  THEN [valid |-> FALSE, reason |-> "Invalid wallet address", map |-> map]
  ELSE LET cleaned == cleanupOldEntries(map, t)
           entry == IF deposit.wallet \in DOMAIN cleaned THEN cleaned[deposit.wallet] ELSE << >>
           pushed == [w \in DOMAIN cleaned \cup {deposit.wallet} |->
                        IF w = deposit.wallet THEN Append(entry, t) ELSE cleaned[w]]
       IN IF Len(entry) >= MAX_EVENTS_PER_WINDOW
          THEN [valid |-> FALSE, reason |-> "Rate limit exceeded", map |-> pushed]
          ELSE [valid |-> TRUE, reason |-> NoReason, map |-> pushed]

\* verifyDeposit: the result and the rate-limit map it leaves behind.
verifyDeposit(deposit, map, t) ==
  IF deposit.amount <= 0
  THEN [valid |-> FALSE, reason |-> "Amount must be greater than 0", map |-> map]
  ELSE IF deposit.timestamp < t - FRESHNESS_MS
  THEN [valid |-> FALSE, reason |-> "Deposit timestamp too old", map |-> map]
  ELSE IF deposit.timestamp > t + FUTURE_SKEW_MS
  THEN [valid |-> FALSE, reason |-> "Deposit timestamp in future", map |-> map]
  ELSE IF deposit.wallet = "" \/ Len(deposit.wallet) < MIN_WALLET_LENGTH
  THEN [valid |-> FALSE, reason |-> "Invalid wallet address", map |-> map]
  ELSE LET cleaned == cleanupOldEntries(map, t)
           entry == IF deposit.wallet \in DOMAIN cleaned THEN cleaned[deposit.wallet] ELSE << >>
       IN IF Len(entry) >= MAX_EVENTS_PER_WINDOW
          THEN [valid |-> FALSE, reason |-> "Rate limit exceeded", map |-> cleaned]
          ELSE [valid |-> TRUE, reason |-> NoReason,
                map |-> [w \in DOMAIN cleaned \cup {deposit.wallet} |->
                           IF w = deposit.wallet THEN Append(entry, t) ELSE cleaned[w]]]

\* Mutant: no deposit is a duplicate.
checkDuplicateNever(deposit, existingDeposits) == FALSE

\* Mutant: && instead of ||.
checkDuplicateBoth(deposit, existingDeposits) ==
  \E d \in existingDeposits : d.txid = deposit.txid /\ d.id = deposit.id

checkDuplicate(deposit, existingDeposits) ==
  \E d \in existingDeposits : d.txid = deposit.txid \/ d.id = deposit.id


\* The times at which verifyDeposit has returned valid, per wallet.
Accept(log, wallet, valid, t) ==
  IF ~valid THEN log
  ELSE [w \in DOMAIN log \cup {wallet} |->
          IF w # wallet THEN log[w]
          ELSE IF w \in DOMAIN log THEN Append(log[w], t) ELSE << t >>]

\* How often a timestamp occurs in one wallet's entry of a rate-limit map.
Occurrences(map, wallet, ts) ==
  IF wallet \notin DOMAIN map THEN 0
  ELSE Cardinality({ i \in DOMAIN map[wallet] : map[wallet][i] = ts })

\* The wallets whose entry holds a timestamp after a call that it did not
\* hold, or held less often, before the call.
Gained(before, after) ==
  { w \in DOMAIN after :
      \E i \in DOMAIN after[w] :
        Occurrences(after, w, after[w][i]) > Occurrences(before, w, after[w][i]) }

\* The wallets whose entry held, before a call at time t, a timestamp less
\* than a window old that it does not hold, or holds less often, after it.
Lost(before, after, t) ==
  { w \in DOMAIN before :
      \E i \in DOMAIN before[w] :
        /\ t - before[w][i] < RATE_LIMIT_WINDOW_MS
        /\ Occurrences(after, w, before[w][i]) < Occurrences(before, w, before[w][i]) }

\* The number of those times that lie less than a window before t.
Recent(log, wallet, t) ==
  IF wallet \notin DOMAIN log THEN 0
  ELSE Cardinality({ i \in DOMAIN log[wallet] : t - log[wallet][i] < RATE_LIMIT_WINDOW_MS })

\* -------------------------------------------------------------- minter.ts

\* Which SQLite statement of a handler throws, if any; the number of
\* statements that throw in one run is bounded.
Throws(stmts) == IF faults < MaxFaults THEN {"none"} \cup stmts ELSE {"none"}

\* The first await of mintAttestation returns at once in the mock and
\* solana modes (mintMock, mintOnSolana) and is network I/O in ethereum mode.
MicrotaskPending == config.mode # "ethereum" /\ inflight # {}

NoToken == << "none", 0 >>

\* Outcomes of the minting capability: a token identifier, or an error
\* (mintOnEthereum only).
CapOutcomes ==
  IF config.mode = "ethereum"
  THEN { [ok |-> TRUE, tokenId |-> << "eth", nextUuid >>, error |-> NoReason] }
       \cup { [ok |-> FALSE, tokenId |-> NoToken, error |-> e] : e \in CapErrors }
  ELSE IF config.mode = "solana"
  THEN { [ok |-> TRUE, tokenId |-> << "sol-mock", now >>, error |-> NoReason] }
  ELSE { [ok |-> TRUE, tokenId |-> << "mock", now >>, error |-> NoReason] }

\* Mutant: the metadata carries the deposit's amount.
AttestationRowWithAmount(deposit, tier, tokenId) ==
  [ id |-> nextUuid, deposit_id |-> deposit.id, wallet |-> deposit.wallet,
    tier |-> tier, token_id |-> tokenId,
    metadata |-> [depositId |-> deposit.id, tier |-> tier, timestamp |-> now,
                  amount |-> deposit.amount] ]

\* The attestation row mintAttestation inserts.
AttestationRow(deposit, tier, tokenId) ==
  [ id |-> nextUuid, deposit_id |-> deposit.id, wallet |-> deposit.wallet,
    tier |-> tier, token_id |-> tokenId,
    metadata |-> [depositId |-> deposit.id, tier |-> tier, timestamp |-> now] ]

\* Mutant: the UPDATE matches no row.
MarkProcessedSkipped(table, id) == table

\* UPDATE deposits SET processed = 1 WHERE id = ?
MarkProcessed(table, id) ==
  [ d \in DOMAIN table |-> IF d = id THEN [table[d] EXCEPT !.processed = TRUE] ELSE table[d] ]

\* Mutant: a deposit below every threshold is refused as well.
AlreadyProcessedOrNoTier(deposit) ==
  deposit.processed \/ getPrivacyTier(deposit.amount, Tiers).tier = "No Tier"

\* Mutant: the guard is missing.
AlreadyProcessedIgnored(deposit) == FALSE

\* The guard of mintAttestation: the processed flag of the Deposit object
\* the caller passed.
AlreadyProcessed(deposit) == deposit.processed

Failure(error) ==
  [success |-> FALSE, error |-> error, attestationId |-> 0, tokenId |-> NoToken]

Success(attestationId, tokenId) ==
  [success |-> TRUE, error |-> NoReason, attestationId |-> attestationId, tokenId |-> tokenId]

\* Mutant: success is returned although the INSERT threw.
MintOutcomeReportsEarly(c, cap, throws) ==
  IF ~cap.ok
  THEN [ atts |-> attestations, deps |-> deposits, result |-> Failure(cap.error) ]
  ELSE IF throws = "insert"
  THEN [ atts |-> attestations, deps |-> deposits, result |-> Success(nextUuid, cap.tokenId) ]
  ELSE IF throws = "update"
  THEN [ atts |-> attestations \cup {AttestationRow(c.deposit, c.tier, cap.tokenId)},
         deps |-> deposits, result |-> Failure(DbError) ]
  ELSE [ atts |-> attestations \cup {AttestationRow(c.deposit, c.tier, cap.tokenId)},
         deps |-> MarkProcessed(deposits, c.deposit.id),
         result |-> Success(nextUuid, cap.tokenId) ]

\* Mutant: the attestation row is written before the capability's outcome
\* is known.
MintOutcomePersistFirst(c, cap, throws) ==
  [ atts |-> attestations \cup {AttestationRow(c.deposit, c.tier, cap.tokenId)},
    deps |-> IF cap.ok /\ throws = "none" THEN MarkProcessed(deposits, c.deposit.id) ELSE deposits,
    result |-> IF ~cap.ok THEN Failure(cap.error)
               ELSE IF throws # "none" THEN Failure(DbError)
               ELSE Success(nextUuid, cap.tokenId) ]

\* mintAttestation after the capability returned: the two writes and the
\* MintResult; any throw is caught and becomes a failure result.
MintOutcome(c, cap, throws) ==
  IF ~cap.ok
  THEN [ atts |-> attestations, deps |-> deposits, result |-> Failure(cap.error) ]
  ELSE IF throws = "insert"
  THEN [ atts |-> attestations, deps |-> deposits, result |-> Failure(DbError) ]
  ELSE IF throws = "update"
  THEN [ atts |-> attestations \cup {AttestationRow(c.deposit, c.tier, cap.tokenId)},
         deps |-> deposits, result |-> Failure(DbError) ]
  ELSE [ atts |-> attestations \cup {AttestationRow(c.deposit, c.tier, cap.tokenId)},
         deps |-> MarkProcessed(deposits, c.deposit.id),
         result |-> Success(nextUuid, cap.tokenId) ]

\* The call record of a mintAttestation call that reached its await.
Slots == 1 .. MaxEvents + MaxRequests + MaxCalls + 1
FreeSlot == CHOOSE n \in Slots : /\ \A c \in inflight : c.slot # n
                                 /\ \A m \in 1 .. n - 1 : \E c \in inflight : c.slot = m

PendingCall(caller, deposit, tier, address) ==
  [ slot |-> FreeSlot, caller |-> caller, deposit |-> deposit, tier |-> tier,
    address |-> address, retry |-> deposit.id \in capFailed ]

\* ------------------------------------------------------ IOUSoulbound.sol

ZeroAddress == "0x0"
Deployer == "owner"
User1 == "user1"
User2 == "user2"
Accounts == {Deployer, User1, User2}

\* Storage after the constructor: Ownable(initialOwner), no token.
Deployed ==
  [ owner |-> Deployer, tokenIdCounter |-> 0, owners |-> << >>, tokens |-> {},
    tokenApprovals |-> << >>, operatorApprovals |-> {} ]

Revert(c, error) == [reverted |-> TRUE, error |-> error, chain |-> c, returns |-> << >>]
Return(c, values) == [reverted |-> FALSE, error |-> NoReason, chain |-> c, returns |-> values]

\* ERC721._ownerOf, getApproved and isApprovedForAll.
OwnerOf(c, tokenId) == IF tokenId \in DOMAIN c.owners THEN c.owners[tokenId] ELSE ZeroAddress
Approved(c, tokenId) ==
  IF tokenId \in DOMAIN c.tokenApprovals THEN c.tokenApprovals[tokenId] ELSE ZeroAddress
IsAuthorized(c, holder, spender, tokenId) ==
  /\ spender # ZeroAddress
  /\ \/ holder = spender
     \/ << holder, spender >> \in c.operatorApprovals
     \/ Approved(c, tokenId) = spender

\* ERC721._update as inherited: authorisation of auth when it is not zero,
\* the approval is cleared, the owner is written (removed for the zero
\* address); returns the previous owner.
SuperUpdate(c, to, tokenId, auth) ==
  LET from == OwnerOf(c, tokenId)
      cleared == [ t \in DOMAIN c.tokenApprovals \ {tokenId} |-> c.tokenApprovals[t] ]
      written == IF to = ZeroAddress
                 THEN [ t \in DOMAIN c.owners \ {tokenId} |-> c.owners[t] ]
                 ELSE [ t \in DOMAIN c.owners \cup {tokenId} |->
                          IF t = tokenId THEN to ELSE c.owners[t] ]
  IN IF auth # ZeroAddress /\ from = ZeroAddress
     THEN Revert(c, "ERC721NonexistentToken")
     ELSE IF auth # ZeroAddress /\ ~IsAuthorized(c, from, auth, tokenId)
     THEN Revert(c, "ERC721InsufficientApproval")
     ELSE Return([c EXCEPT !.owners = written, !.tokenApprovals = cleared], << from >>)

\* Mutant: the override adds nothing.
UpdateUnguarded(c, to, tokenId, auth) == SuperUpdate(c, to, tokenId, auth)

\* IOUSoulbound._update
Update(c, to, tokenId, auth) ==
  IF ~(auth = ZeroAddress \/ to = ZeroAddress)
  THEN Revert(c, "Token is soulbound and cannot be transferred")
  ELSE SuperUpdate(c, to, tokenId, auth)

\* ERC721._safeMint for a recipient that is an account.
SafeMint(c, to, tokenId) ==
  IF to = ZeroAddress THEN Revert(c, "ERC721InvalidReceiver")
  ELSE LET updated == Update(c, to, tokenId, ZeroAddress)
       IN IF updated.reverted THEN updated
          ELSE IF updated.returns[1] # ZeroAddress THEN Revert(c, "ERC721InvalidSender")
          ELSE updated

\* Mutant: the modifier is missing.
OnlyOwnerMissing(c, sender) == TRUE

\* modifier onlyOwner
OnlyOwner(c, sender) == c.owner = sender

\* Mutant: the counter is pre-incremented, so identifiers start at 1.
MintNextPreIncrement(c, to) ==
  LET tokenId == c.tokenIdCounter + 1
      minted == SafeMint([c EXCEPT !.tokenIdCounter = tokenId], to, tokenId)
  IN IF minted.reverted THEN Revert(c, minted.error)
     ELSE Return([minted.chain EXCEPT !.tokens = @ \cup {tokenId}], << tokenId >>)

\* The body shared by mintAttestation and mintTier: the counter is
\* post-incremented, the token minted and marked.
MintNext(c, to) ==
  LET tokenId == c.tokenIdCounter
      minted == SafeMint([c EXCEPT !.tokenIdCounter = tokenId + 1], to, tokenId)
  IN IF minted.reverted THEN Revert(c, minted.error)
     ELSE Return([minted.chain EXCEPT !.tokens = @ \cup {tokenId}], << tokenId >>)

mintAttestation(c, sender, to) ==
  IF ~OnlyOwner(c, sender) THEN Revert(c, "OwnableUnauthorizedAccount")
  ELSE MintNext(c, to)

mintTier(c, sender, to, tierId) ==
  IF ~OnlyOwner(c, sender) THEN Revert(c, "OwnableUnauthorizedAccount")
  ELSE IF ~(tierId < 3) THEN Revert(c, "Invalid tier ID")
  ELSE MintNext(c, to)

\* ERC721.transferFrom; safeTransferFrom calls it, and its receiver check
\* passes for an account.
transferFrom(c, sender, from, to, tokenId) ==
  IF to = ZeroAddress THEN Revert(c, "ERC721InvalidReceiver")
  ELSE LET updated == Update(c, to, tokenId, sender)
       IN IF updated.reverted THEN Revert(c, updated.error)
          ELSE IF updated.returns[1] # from THEN Revert(c, "ERC721IncorrectOwner")
          ELSE Return(updated.chain, << >>)

safeTransferFrom(c, sender, from, to, tokenId) == transferFrom(c, sender, from, to, tokenId)

\* ERC721.approve and setApprovalForAll.
approve(c, sender, to, tokenId) ==
  LET holder == OwnerOf(c, tokenId)
  IN IF holder = ZeroAddress THEN Revert(c, "ERC721NonexistentToken")
     ELSE IF holder # sender /\ << holder, sender >> \notin c.operatorApprovals
     THEN Revert(c, "ERC721InvalidApprover")
     ELSE Return([c EXCEPT !.tokenApprovals =
                    [ t \in DOMAIN c.tokenApprovals \cup {tokenId} |->
                        IF t = tokenId THEN to ELSE c.tokenApprovals[t] ]], << >>)

setApprovalForAll(c, sender, operator) ==
  IF operator = ZeroAddress THEN Revert(c, "ERC721InvalidOperator")
  ELSE Return([c EXCEPT !.operatorApprovals = @ \cup {<< sender, operator >>}], << >>)

\* Ownable.transferOwnership and renounceOwnership.
transferOwnership(c, sender, newOwner) ==
  IF ~OnlyOwner(c, sender) THEN Revert(c, "OwnableUnauthorizedAccount")
  ELSE IF newOwner = ZeroAddress THEN Revert(c, "OwnableInvalidOwner")
  ELSE Return([c EXCEPT !.owner = newOwner], << >>)

renounceOwnership(c, sender) ==
  IF ~OnlyOwner(c, sender) THEN Revert(c, "OwnableUnauthorizedAccount")
  ELSE Return([c EXCEPT !.owner = ZeroAddress], << >>)

\* exists(tokenId) and totalSupply()
exists(c, tokenId) == tokenId \in c.tokens
totalSupply(c) == c.tokenIdCounter

\* ------------------------------------------------------------- server.ts

Idle ==
  [ op |-> "none", id |-> "", txid |-> "", prior |-> FALSE, inserted |-> FALSE,
    verdict |-> "none", reason |-> NoReason, dupChecked |-> FALSE,
    minter |-> "none", emitted |-> << >>, results |-> << >>, responses |-> << >>,
    retry |-> FALSE, threw |-> FALSE, cap |-> << >>, argProcessed |-> FALSE,
    arg |-> << >>, recent |-> 0, wrote |-> {}, lost |-> {},
    effect |-> [added |-> {}, removed |-> {}, changed |-> {}, flagged |-> {},
                reverted |-> {}, started |-> {}] ]

Notes(seq) == { seq[i] : i \in DOMAIN seq }

\* What a step did to the two tables and to the set of suspended calls:
\* attestation rows added and removed, deposit identifiers whose row was
\* written, whose processed flag went from false to true, and whose flag
\* went back or whose row disappeared, and the calls that invoked the
\* minting capability.
Effect(deps, deps2, atts, atts2, calls, calls2) ==
  [ added |-> atts2 \ atts,
    removed |-> atts \ atts2,
    changed |-> { d \in DOMAIN deps \cup DOMAIN deps2 :
                    \/ d \notin DOMAIN deps
                    \/ d \notin DOMAIN deps2
                    \/ deps[d] # deps2[d] },
    flagged |-> { d \in DOMAIN deps \cap DOMAIN deps2 :
                    ~deps[d].processed /\ deps2[d].processed },
    reverted |-> { d \in DOMAIN deps :
                    \/ d \notin DOMAIN deps2
                    \/ deps[d].processed /\ ~deps2[d].processed },
    started |-> calls2 \ calls ]

TypeOK ==
  /\ config \in Configs
  /\ phase \in {"init", "running", "exited"}
  /\ faults \in 0 .. MaxFaults
  /\ now \in Nat
  /\ DOMAIN deposits \subseteq DepositIds
  /\ delivered \in 0 .. MaxEvents
  /\ requested \in 0 .. MaxCalls
  /\ nextUuid \in Nat
  /\ capFailed \subseteq DepositIds
  /\ eligible \subseteq DepositIds
  /\ succeeded \subseteq DepositIds

Init ==
  /\ config \in Configs
  /\ phase = "init"
  /\ faults = 0
  /\ now = StartTime
  /\ deposits = << >>
  /\ attestations = {}
  /\ rateLimitMap = << >>
  /\ inflight = {}
  /\ delivered = 0
  /\ requested = 0
  /\ nextUuid = 1
  /\ last = Idle
  /\ notified = {}
  /\ capFailed = {}
  /\ eligible = {}
  /\ succeeded = {}
  /\ accepted = << >>
  /\ verifyCalls = 0
  /\ otherCalls = 0
  /\ ticks = 0
  /\ chain = Deployed
  /\ issued = << >>

\* start(): minter.initialize(), listener.start(), httpServer.listen; any
\* throw ends the process.
\* Mutant: only the two checks that initializeEthereum spells out.
StartupFailsOnEndpointsOnly ==
  config.mode = "ethereum" /\ (~config.rpcUrl \/ ~config.contractAddress)

StartupFails ==
  \/ config.mode = "ethereum" /\ (~config.rpcUrl \/ ~config.contractAddress \/ ~config.privateKey)
  \/ config.mode = "solana" /\ ~config.solanaRpcUrl

Start ==
  /\ phase = "init"
  /\ phase' = IF StartupFails THEN "exited" ELSE "running"
  /\ last' = [Idle EXCEPT !.op = "start"]
  /\ UNCHANGED << config, faults, now, deposits, attestations, rateLimitMap, inflight,
                  delivered, requested, nextUuid, notified, capFailed, eligible, succeeded,
                  accepted, verifyCalls, otherCalls, ticks, chain, issued >>

\* The Deposit object the handler builds from the event.
DepositRow(id, txid, shape) ==
  [ id |-> id, txid |-> txid, wallet |-> shape.wallet, amount |-> shape.amount,
    timestamp |-> now + shape.offset, processed |-> FALSE ]

\* The columns of a deposits row that the handlers read back (token,
\* timestamp and created_at are written and never read).
Stored(dep) ==
  [ id |-> dep.id, txid |-> dep.txid, wallet |-> dep.wallet, amount |-> dep.amount,
    processed |-> dep.processed ]

\* INSERT INTO deposits: id is the primary key.
InsertDeposit(table, row) ==
  [ d \in DOMAIN table \cup {row.id} |-> IF d = row.id THEN Stored(row) ELSE table[d] ]

\* Mutant: INSERT OR REPLACE.
InsertReplaces(table, row) == FALSE

InsertConflicts(table, row) == row.id \in DOMAIN table

\* SELECT * FROM deposits WHERE txid = ?
DepositsByTxid(table, txid) == { table[d] : d \in { x \in DOMAIN table : table[x].txid = txid } }

NewNote(dep) == [event |-> "deposit:new", depositId |-> dep.id, wallet |-> dep.wallet]
VerifiedNote(id, valid, reason) ==
  [event |-> "deposit:verified", depositId |-> id, valid |-> valid, reason |-> reason]
MintedNote(id, address, tier, tokenId) ==
  [event |-> "attestation:minted", depositId |-> id, address |-> address, tier |-> tier,
   tokenId |-> tokenId]

\* Mutant: the early return is missing.
RejectedNever(verification) == FALSE

\* if (!verification.valid) { ...; return; }
RejectedByVerifier(verification) == ~verification.valid

\* if (config.mode === 'mock')
AutoMint == config.mode = "mock"

\* Mutant: the error leaves the handler (an unhandled rejection ends the
\* process).
HandlerRethrows(state) == "exited"

\* catch (error) { logger.error('Error processing deposit', error); }
HandlerCatches(state) == state

\* Mutant: every event the Verifier accepts goes to the minter, with no
\* duplicate return and no test of the mode.
OnDepositMintsAlways(id, txid, shape, throws) ==
  LET dbDeposit == DepositRow(id, txid, shape)
      prior == \E d \in DOMAIN deposits : deposits[d].txid = txid \/ d = id
      insertFails == throws = "insert" \/ InsertConflicts(deposits, dbDeposit)
      stored == InsertDeposit(deposits, dbDeposit)
      verification == verifyDeposit(dbDeposit, rateLimitMap, now)
      existingDeposits == DepositsByTxid(stored, txid)
      duplicate == checkDuplicate(dbDeposit, existingDeposits)
      tier == getPrivacyTier(shape.amount, Tiers)
      base == [Idle EXCEPT !.op = "deposit", !.id = id, !.txid = txid, !.prior = prior]
      seen == [base EXCEPT !.inserted = TRUE,
                  !.verdict = IF verification.valid THEN "valid" ELSE "invalid"]
      step == IF insertFails THEN [base EXCEPT !.threw = TRUE]
              ELSE IF RejectedByVerifier(verification)
              THEN [seen EXCEPT !.reason = verification.reason,
                       !.emitted = << NewNote(dbDeposit),
                                      VerifiedNote(id, FALSE, verification.reason) >>]
              ELSE IF throws = "select"
              THEN [seen EXCEPT !.threw = TRUE, !.emitted = << NewNote(dbDeposit) >>]
              ELSE IF AlreadyProcessed(dbDeposit)
              THEN [seen EXCEPT !.dupChecked = TRUE, !.minter = "rejected",
                       !.results = << Failure("Deposit already processed") >>,
                       !.emitted = << NewNote(dbDeposit), VerifiedNote(id, TRUE, NoReason) >>]
              ELSE [seen EXCEPT !.dupChecked = TRUE, !.minter = "invoked",
                       !.emitted = << NewNote(dbDeposit), VerifiedNote(id, TRUE, NoReason) >>]
  IN
  /\ phase = "running"
  /\ ~MicrotaskPending
  /\ delivered < MaxEvents
  /\ delivered' = delivered + 1
  /\ notified' = notified \cup Notes(step.emitted)
  /\ deposits' = IF insertFails THEN deposits ELSE stored
  /\ rateLimitMap' = IF insertFails THEN rateLimitMap ELSE verification.map
  /\ eligible' = IF ~insertFails /\ verification.valid /\ ~prior
                 THEN eligible \cup {id} ELSE eligible
  /\ inflight' = IF step.minter = "invoked"
                 THEN inflight \cup {PendingCall("auto", dbDeposit, tier.tier, dbDeposit.wallet)}
                 ELSE inflight
  /\ last' = [step EXCEPT !.effect = Effect(deposits, deposits', attestations, attestations,
                                            inflight, inflight')]
  /\ faults' = IF throws = "insert" \/ (step.inserted /\ step.threw) THEN faults + 1 ELSE faults
  /\ accepted' = IF insertFails THEN accepted
                 ELSE Accept(accepted, dbDeposit.wallet, verification.valid, now)
  /\ phase' = IF step.threw THEN HandlerCatches(phase) ELSE phase
  /\ UNCHANGED << config, now, attestations, requested, nextUuid, capFailed, succeeded,
                  verifyCalls, otherCalls, ticks, chain, issued >>

\* listener.on('deposit', ...): the handler up to its first await.
OnDeposit(id, txid, shape, throws) ==
  LET dbDeposit == DepositRow(id, txid, shape)
      prior == \E d \in DOMAIN deposits : deposits[d].txid = txid \/ d = id
      insertFails == throws = "insert" \/ InsertConflicts(deposits, dbDeposit)
      stored == InsertDeposit(deposits, dbDeposit)
      verification == verifyDeposit(dbDeposit, rateLimitMap, now)
      existingDeposits == DepositsByTxid(stored, txid)
      duplicate == checkDuplicate(dbDeposit, existingDeposits)
      tier == getPrivacyTier(shape.amount, Tiers)
      base == [Idle EXCEPT !.op = "deposit", !.id = id, !.txid = txid, !.prior = prior]
      seen == [base EXCEPT !.inserted = TRUE,
                  !.verdict = IF verification.valid THEN "valid" ELSE "invalid"]
      step == IF insertFails THEN [base EXCEPT !.threw = TRUE]
              ELSE IF RejectedByVerifier(verification)
              THEN [seen EXCEPT !.reason = verification.reason,
                       !.emitted = << NewNote(dbDeposit),
                                      VerifiedNote(id, FALSE, verification.reason) >>]
              ELSE IF throws = "select"
              THEN [seen EXCEPT !.threw = TRUE, !.emitted = << NewNote(dbDeposit) >>]
              ELSE IF duplicate
              THEN [seen EXCEPT !.dupChecked = TRUE, !.reason = "Duplicate deposit",
                       !.emitted = << NewNote(dbDeposit),
                                      VerifiedNote(id, FALSE, "Duplicate deposit") >>]
              ELSE IF ~AutoMint
              THEN [seen EXCEPT !.dupChecked = TRUE,
                       !.emitted = << NewNote(dbDeposit), VerifiedNote(id, TRUE, NoReason) >>]
              ELSE IF AlreadyProcessed(dbDeposit)
              THEN [seen EXCEPT !.dupChecked = TRUE, !.minter = "rejected",
                       !.results = << Failure("Deposit already processed") >>,
                       !.emitted = << NewNote(dbDeposit), VerifiedNote(id, TRUE, NoReason) >>]
              ELSE [seen EXCEPT !.dupChecked = TRUE, !.minter = "invoked",
                       !.emitted = << NewNote(dbDeposit), VerifiedNote(id, TRUE, NoReason) >>]
  IN
  /\ phase = "running"
  /\ ~MicrotaskPending
  /\ delivered < MaxEvents
  /\ delivered' = delivered + 1
  /\ notified' = notified \cup Notes(step.emitted)
  /\ deposits' = IF insertFails THEN deposits ELSE stored
  /\ rateLimitMap' = IF insertFails THEN rateLimitMap ELSE verification.map
  /\ eligible' = IF ~insertFails /\ verification.valid /\ ~prior
                 THEN eligible \cup {id} ELSE eligible
  /\ inflight' = IF step.minter = "invoked"
                 THEN inflight \cup {PendingCall("auto", dbDeposit, tier.tier, dbDeposit.wallet)}
                 ELSE inflight
  /\ last' = [step EXCEPT !.effect = Effect(deposits, deposits', attestations, attestations,
                                            inflight, inflight')]
  /\ faults' = IF throws = "insert" \/ (step.inserted /\ step.threw) THEN faults + 1 ELSE faults
  /\ accepted' = IF insertFails THEN accepted
                 ELSE Accept(accepted, dbDeposit.wallet, verification.valid, now)
  /\ phase' = IF step.threw THEN HandlerCatches(phase) ELSE phase
  /\ UNCHANGED << config, now, attestations, requested, nextUuid, capFailed, succeeded,
                  verifyCalls, otherCalls, ticks, chain, issued >>

Addresses == {WalletA, WalletB}
ApiKeys == {AdminApiKey, "wrong-key"}

Response(status, body) == [status |-> status, body |-> body]

\* Mutant: requireAdmin lets every request through.
UnauthorizedNever(apiKey) == FALSE

\* requireAdmin
Unauthorized(apiKey) == apiKey # AdminApiKey

\* Mutant: the handler leaves the check to mintAttestation.
PrecheckSkipped(deposit) == FALSE

\* if (deposit.processed) return res.status(400)...
PrecheckProcessed(deposit) == deposit.processed

\* app.post('/api/mint', requireAdmin, ...): the handler up to its first await.
ForceMint(address, depositId, apiKey, throws) ==
  LET found == depositId \in DOMAIN deposits
      deposit == deposits[depositId]
      tier == getPrivacyTier(deposit.amount, Tiers).tier
      base == [Idle EXCEPT !.op = "forceMint", !.id = depositId, !.arg = << apiKey >>]
      step == IF Unauthorized(apiKey)
              THEN [base EXCEPT !.responses = << Response(401, "Unauthorized") >>]
              ELSE IF address = "" \/ depositId = ""
              THEN [base EXCEPT !.responses = << Response(400, "Address and depositId required") >>]
              ELSE IF throws = "select"
              THEN [base EXCEPT !.threw = TRUE,
                       !.responses = << Response(500, "Internal server error") >>]
              ELSE IF ~found
              THEN [base EXCEPT !.responses = << Response(404, "Deposit not found") >>]
              ELSE IF PrecheckProcessed(deposit)
              THEN [base EXCEPT !.responses = << Response(400, "Deposit already processed") >>]
              ELSE IF AlreadyProcessed(deposit)
              THEN [base EXCEPT !.minter = "rejected",
                       !.results = << Failure("Deposit already processed") >>,
                       !.responses = << Response(500, "Deposit already processed") >>]
              ELSE [base EXCEPT !.minter = "invoked", !.retry = depositId \in capFailed]
  IN
  /\ phase = "running"
  /\ ~MicrotaskPending
  /\ requested < MaxRequests
  /\ requested' = requested + 1
  /\ inflight' = IF step.minter = "invoked"
                 THEN inflight \cup {PendingCall("force", deposit, tier, address)}
                 ELSE inflight
  /\ last' = [step EXCEPT !.effect = Effect(deposits, deposits, attestations, attestations,
                                            inflight, inflight')]
  /\ faults' = IF step.threw THEN faults + 1 ELSE faults
  /\ UNCHANGED << config, phase, now, deposits, attestations, rateLimitMap,
                  delivered, nextUuid, notified, capFailed, eligible, succeeded,
                  accepted, verifyCalls, otherCalls, ticks, chain, issued >>

\* The minting capability of call c returns or throws; mintAttestation
\* finishes, and its caller acts on the MintResult.
MintResume(c, cap, throws) ==
  LET out == MintOutcome(c, cap, throws)
      result == out.result
      note == MintedNote(c.deposit.id, c.address, c.tier, result.tokenId)
      step == [Idle EXCEPT !.op = "resume", !.id = c.deposit.id, !.minter = c.caller,
                 !.retry = c.retry, !.threw = cap.ok /\ throws # "none",
                 !.cap = << [ok |-> cap.ok, error |-> cap.error] >>,
                 !.results = << result >>,
                 !.emitted = IF result.success /\ c.caller # "direct" THEN << note >> ELSE << >>,
                 !.responses = IF c.caller # "force" THEN << >>
                               ELSE IF result.success THEN << Response(200, "success") >>
                               ELSE << Response(500, result.error) >>]
  IN
  /\ phase = "running"
  /\ c \in inflight
  /\ inflight' = inflight \ {c}
  /\ attestations' = out.atts
  /\ deposits' = out.deps
  /\ nextUuid' = IF cap.ok THEN nextUuid + 1 ELSE nextUuid
  /\ last' = [step EXCEPT !.effect = Effect(deposits, deposits', attestations, attestations',
                                            inflight, inflight')]
  /\ notified' = notified \cup Notes(step.emitted)
  /\ capFailed' = IF cap.ok THEN capFailed ELSE capFailed \cup {c.deposit.id}
  /\ succeeded' = IF result.success THEN succeeded \cup {c.deposit.id} ELSE succeeded
  /\ faults' = IF step.threw THEN faults + 1 ELSE faults
  /\ UNCHANGED << config, phase, now, rateLimitMap, delivered, requested, eligible,
                  accepted, verifyCalls, otherCalls, ticks, chain, issued >>

\* A caller of the exported MinterService.mintAttestation that passes the
\* Deposit it has just read from the deposits table, with no check of its
\* own: the method up to its first await.
CallMint(depositId) ==
  LET deposit == deposits[depositId]
      tier == getPrivacyTier(deposit.amount, Tiers).tier
      base == [Idle EXCEPT !.op = "callMint", !.id = depositId,
                  !.argProcessed = deposit.processed]
      step == IF AlreadyProcessed(deposit)
              THEN [base EXCEPT !.minter = "rejected",
                       !.results = << Failure("Deposit already processed") >>]
              ELSE [base EXCEPT !.minter = "invoked", !.retry = depositId \in capFailed]
  IN
  /\ phase = "running"
  /\ ~MicrotaskPending
  /\ depositId \in DOMAIN deposits
  /\ requested < MaxCalls
  /\ requested' = requested + 1
  /\ inflight' = IF step.minter = "invoked"
                 THEN inflight \cup {PendingCall("direct", deposit, tier, deposit.wallet)}
                 ELSE inflight
  /\ last' = [step EXCEPT !.effect = Effect(deposits, deposits, attestations, attestations,
                                            inflight, inflight')]
  /\ UNCHANGED << config, phase, faults, now, deposits, attestations, rateLimitMap,
                  delivered, nextUuid, notified, capFailed, eligible, succeeded,
                  accepted, verifyCalls, otherCalls, ticks, chain, issued >>

Next ==
  \/ Start
  \/ \E id \in DepositIds, txid \in TxIds, shape \in EventShapes, throws \in Throws({"insert", "select"}) :
       OnDeposit(id, txid, shape, throws)
  \/ \E address \in Addresses, depositId \in DepositIds, apiKey \in ApiKeys, throws \in Throws({"select"}) :
       ForceMint(address, depositId, apiKey, throws)
  \/ \E c \in inflight, cap \in CapOutcomes, throws \in Throws({"insert", "update"}) :
       MintResume(c, cap, throws)

Spec == Init /\ [][Next]_vars

\* MinterService under direct calls: deposits arrive through the listener
\* handler, and mintAttestation is called on stored deposits.
NextMint ==
  \/ Start
  \/ \E id \in DepositIds, txid \in TxIds, shape \in EventShapes, throws \in Throws({"insert", "select"}) :
       OnDeposit(id, txid, shape, throws)
  \/ \E depositId \in DepositIds : CallMint(depositId)
  \/ \E c \in inflight, cap \in CapOutcomes, throws \in Throws({"insert", "update"}) :
       MintResume(c, cap, throws)

SpecMint == Init /\ [][NextMint]_vars

\* The server fed with deposits of two amounts that fall in one tier.
PrivacyShapes ==
  { [wallet |-> WalletA, amount |-> 150, offset |-> 0],
    [wallet |-> WalletA, amount |-> 100, offset |-> 0] }

NextPrivacy ==
  \/ Start
  \/ \E id \in DepositIds, txid \in TxIds, shape \in PrivacyShapes, throws \in Throws({"insert", "select"}) :
       OnDeposit(id, txid, shape, throws)
  \/ \E address \in Addresses, depositId \in DepositIds, apiKey \in ApiKeys, throws \in Throws({"select"}) :
       ForceMint(address, depositId, apiKey, throws)
  \/ \E c \in inflight, cap \in CapOutcomes, throws \in Throws({"insert", "update"}) :
       MintResume(c, cap, throws)

SpecPrivacy == Init /\ [][NextPrivacy]_vars

\* ---------------------------------------------- verifier.ts, called directly

\* The deposit of the burst that fills the rate-limit window.
SampleShape == [wallet |-> WalletA, amount |-> 150, offset |-> 0]

\* Other deposits passed to verifyDeposit: a second wallet, wallets of 20
\* and 19 characters and the empty one, amounts 0 and below, timestamps at
\* and just beyond the two limits, and deposits that fail several checks.
VerifyShapes ==
  { [wallet |-> WalletB, amount |-> 150, offset |-> 0],
    [wallet |-> Wallet20, amount |-> 1, offset |-> 0],
    [wallet |-> Wallet19, amount |-> 150, offset |-> 0],
    [wallet |-> "", amount |-> 150, offset |-> 0],
    [wallet |-> WalletA, amount |-> 0, offset |-> 0],
    [wallet |-> WalletA, amount |-> -5, offset |-> 0],
    [wallet |-> WalletA, amount |-> 150, offset |-> -FRESHNESS_MS],
    [wallet |-> WalletA, amount |-> 150, offset |-> -FRESHNESS_MS - 1],
    [wallet |-> WalletA, amount |-> 150, offset |-> FUTURE_SKEW_MS],
    [wallet |-> WalletA, amount |-> 150, offset |-> FUTURE_SKEW_MS + 1],
    [wallet |-> Wallet19, amount |-> 0, offset |-> 0],
    [wallet |-> WalletA, amount |-> 0, offset |-> -FRESHNESS_MS - 1],
    [wallet |-> WalletA, amount |-> -5, offset |-> FUTURE_SKEW_MS + 1],
    [wallet |-> Wallet19, amount |-> 150, offset |-> -FRESHNESS_MS - 1],
    [wallet |-> "", amount |-> 150, offset |-> FUTURE_SKEW_MS + 1] }

\* How far Date.now() moves between two calls.
TickSteps == {1, RATE_LIMIT_WINDOW_MS - 1}

\* verifyDeposit(deposit), called by an importer of verifier.ts.
Verify(shape) ==
  LET deposit == DepositRow("d1", "tx1", shape)
      verification == verifyDeposit(deposit, rateLimitMap, now)
  IN
  /\ verifyCalls < MaxVerifyCalls
  /\ shape # SampleShape => otherCalls < MaxOtherCalls
  /\ verifyCalls' = verifyCalls + 1
  /\ otherCalls' = IF shape # SampleShape THEN otherCalls + 1 ELSE otherCalls
  /\ rateLimitMap' = verification.map
  /\ accepted' = Accept(accepted, deposit.wallet, verification.valid, now)
  /\ last' = [Idle EXCEPT !.op = "verify", !.arg = << deposit >>,
                 !.verdict = IF verification.valid THEN "valid" ELSE "invalid",
                 !.reason = verification.reason,
                 !.recent = Recent(accepted, deposit.wallet, now),
                 !.wrote = Gained(rateLimitMap, verification.map),
                 !.lost = Lost(rateLimitMap, verification.map, now)]
  /\ UNCHANGED << config, phase, faults, now, deposits, attestations, inflight, delivered,
                  requested, nextUuid, notified, capFailed, eligible, succeeded, ticks, chain, issued >>

\* Time passes.
Tick(step) ==
  /\ ticks < MaxTicks
  /\ ticks' = ticks + 1
  /\ now' = now + step
  /\ last' = [Idle EXCEPT !.op = "tick"]
  /\ UNCHANGED << config, phase, faults, deposits, attestations, rateLimitMap, inflight,
                  delivered, requested, nextUuid, notified, capFailed, eligible, succeeded,
                  accepted, verifyCalls, otherCalls, chain, issued >>

InitVerify == Init /\ config.mode = "mock"

NextVerify ==
  \/ \E shape \in {SampleShape} \cup VerifyShapes : Verify(shape)
  \/ \E step \in TickSteps : Tick(step)

SpecVerify == InitVerify /\ [][NextVerify]_vars


\* checkDuplicate(deposit, existingDeposits), called by an importer of
\* verifier.ts: candidates and prior deposits over three identifiers and
\* three transaction references.  The function keeps no state: a run makes
\* one call.
DuplicatePool ==
  { DepositRow(id, txid, SampleShape) : id \in DepositIds \cup {"d3"}, txid \in TxIds \cup {"tx3"} }

PriorDeposits == { priors \in SUBSET DuplicatePool : Cardinality(priors) <= MaxPriors }

IsDuplicate(candidate, priors) ==
  /\ last.op = "none"
  /\ last' = [Idle EXCEPT !.op = "checkDuplicate", !.arg = << candidate, priors >>,
                 !.results = << checkDuplicate(candidate, priors) >>]
  /\ UNCHANGED << config, phase, faults, now, deposits, attestations, rateLimitMap, inflight,
                  delivered, requested, nextUuid, notified, capFailed, eligible, succeeded,
                  accepted, verifyCalls, otherCalls, ticks, chain, issued >>

NextDuplicate ==
  /\ last.op = "none"
  /\ \E candidate \in DuplicatePool, priors \in PriorDeposits : IsDuplicate(candidate, priors)

SpecDuplicate == InitVerify /\ [][NextDuplicate]_vars

\* ----------------------------------------------- privacy.ts, called directly

\* Tier tables: every sequence of at most MaxTiers tiers, with repeated
\* names and repeated thresholds.
TierNames == {"Tier A", "Tier B", "Tier C"}
TierThresholds == {0, 1, 10, 100}
TierPool == [name : TierNames, threshold : TierThresholds]
TierTables == UNION { [1 .. n -> TierPool] : n \in 0 .. MaxTiers }
Amounts == {-5, 0, 1, 5, 10, 99, 100, 150}

\* getPrivacyTier(amount, tiers), called by an importer of privacy.ts.  The
\* function keeps no state: a run makes one call.
Classify(amount, tiers) ==
  /\ last.op = "none"
  /\ last' = [Idle EXCEPT !.op = "classify", !.arg = << amount, tiers >>,
                 !.results = << getPrivacyTier(amount, tiers) >>]
  /\ UNCHANGED << config, phase, faults, now, deposits, attestations, rateLimitMap, inflight,
                  delivered, requested, nextUuid, notified, capFailed, eligible, succeeded,
                  accepted, verifyCalls, otherCalls, ticks, chain, issued >>

NextTier ==
  /\ last.op = "none"
  /\ \E amount \in Amounts, tiers \in TierTables : Classify(amount, tiers)

SpecTier == InitVerify /\ [][NextTier]_vars

\* ------------------------------------- IOUSoulbound.sol, transactions sent

TokenIds == 0 .. MaxMints
Recipients == {User1, User2, ZeroAddress}
Holders == {User1, User2}
TierIds == {0, 2, 3}
Spenders == {User2}
NewOwners == {User1, ZeroAddress}

\* The storage fields in which two states of the contract differ.
Wrote(c, c2) == { f \in DOMAIN c : c[f] # c2[f] }

\* A transaction is applied whole or reverted whole; the step record keeps
\* what the claims need of the call (whether the contract owner sent it,
\* whether both addresses are non-zero) and the storage fields it wrote.
Transact(call, outcome) ==
  /\ chain' = outcome.chain
  /\ last' = [Idle EXCEPT !.op = call.fn,
                 !.arg = << [byOwner |-> call.sender = chain.owner,
                            nonZero |-> call.from # ZeroAddress /\ call.to # ZeroAddress] >>,
                 !.threw = outcome.reverted, !.reason = outcome.error,
                 !.results = outcome.returns,
                 !.wrote = Wrote(chain, outcome.chain)]
  /\ issued' = IF call.fn \in {"mintAttestation", "mintTier"} /\ ~outcome.reverted
               THEN [ t \in DOMAIN issued \cup {outcome.returns[1]} |->
                        IF t = outcome.returns[1] THEN call.to ELSE issued[t] ]
               ELSE issued
  /\ UNCHANGED << config, phase, faults, now, deposits, attestations, rateLimitMap, inflight,
                  delivered, requested, nextUuid, notified, capFailed, eligible, succeeded,
                  accepted, verifyCalls, otherCalls, ticks >>

Call(fn, sender, from, to, tokenId) ==
  [fn |-> fn, sender |-> sender, from |-> from, to |-> to, tokenId |-> tokenId]

MintAttestationTx(sender, to) ==
  /\ chain.tokenIdCounter < MaxMints
  /\ Transact(Call("mintAttestation", sender, ZeroAddress, to, chain.tokenIdCounter),
              mintAttestation(chain, sender, to))

MintTierTx(sender, to, tierId) ==
  /\ chain.tokenIdCounter < MaxMints
  /\ Transact(Call("mintTier", sender, ZeroAddress, to, chain.tokenIdCounter),
              mintTier(chain, sender, to, tierId))

TransferFromTx(sender, from, to, tokenId) ==
  Transact(Call("transferFrom", sender, from, to, tokenId),
           transferFrom(chain, sender, from, to, tokenId))

SafeTransferFromTx(sender, from, to, tokenId) ==
  Transact(Call("safeTransferFrom", sender, from, to, tokenId),
           safeTransferFrom(chain, sender, from, to, tokenId))

ApproveTx(sender, to, tokenId) ==
  Transact(Call("approve", sender, ZeroAddress, to, tokenId), approve(chain, sender, to, tokenId))

SetApprovalForAllTx(sender, operator) ==
  Transact(Call("setApprovalForAll", sender, ZeroAddress, operator, 0),
           setApprovalForAll(chain, sender, operator))

TransferOwnershipTx(sender, newOwner) ==
  Transact(Call("transferOwnership", sender, ZeroAddress, newOwner, 0),
           transferOwnership(chain, sender, newOwner))

RenounceOwnershipTx(sender) ==
  Transact(Call("renounceOwnership", sender, ZeroAddress, ZeroAddress, 0),
           renounceOwnership(chain, sender))

NextToken ==
  \/ \E sender \in Accounts, to \in Recipients : MintAttestationTx(sender, to)
  \/ \E sender \in Accounts, to \in Recipients, tierId \in TierIds : MintTierTx(sender, to, tierId)
  \/ \E sender \in Accounts, from \in Holders, to \in Recipients, tokenId \in TokenIds :
       TransferFromTx(sender, from, to, tokenId)
  \/ \E sender \in Accounts, from \in Holders, to \in Recipients, tokenId \in TokenIds :
       SafeTransferFromTx(sender, from, to, tokenId)
  \/ \E sender \in Accounts, to \in Spenders, tokenId \in TokenIds : ApproveTx(sender, to, tokenId)
  \/ \E sender \in Accounts, operator \in Spenders : SetApprovalForAllTx(sender, operator)
  \/ \E sender \in Accounts, newOwner \in NewOwners : TransferOwnershipTx(sender, newOwner)
  \/ \E sender \in Accounts : RenounceOwnershipTx(sender)

SpecToken == InitVerify /\ [][NextToken]_vars

\* ================================================================ claims

AttestationsOf(d) == { a \in attestations : a.deposit_id = d }

NoTableChange(e) ==
  e.added = {} /\ e.removed = {} /\ e.changed = {} /\ e.flagged = {} /\ e.reverted = {}

\* C1: after any interleaving of auto-mint runs and forceMint requests the
\* attestations table holds at most one attestation per deposit identifier.
\* (Two overlapping forceMint requests for one deposit break it, with no
\* SQLite statement throwing.)
C1_OneAttestationPerDeposit ==
  faults = 0 => \A d \in DepositIds : Cardinality(AttestationsOf(d)) <= 1

\* C2: mintAttestation called with a Deposit whose processed flag is true
\* returns the failure 'Deposit already processed', does not invoke the
\* minting capability and leaves both tables unchanged.
C2_ProcessedIsRejected ==
  ( last.op = "callMint" /\ last.argProcessed )
  => ( /\ last.results = << Failure("Deposit already processed") >>
       /\ last.effect.started = {}
       /\ NoTableChange(last.effect) )

C2_Witness ==
  /\ last.op = "callMint"
  /\ last.argProcessed
  /\ deposits[last.id].processed

C4_CapabilityFailure ==
  ( last.op = "resume" /\ ~last.cap[1].ok )
  => ( /\ last.results = << Failure(last.cap[1].error) >>
       /\ last.cap[1].error \in CapErrors
       /\ NoTableChange(last.effect)
       /\ last.emitted = << >> )

C4_Witness ==
  /\ last.op = "resume"
  /\ ~last.cap[1].ok
  /\ ~deposits[last.id].processed
  /\ AttestationsOf(last.id) = {}

\* C5: whenever no mintAttestation call is in progress, a stored deposit is
\* processed if and only if an attestation references it, also when one of
\* the two writes of mintAttestation throws.
\* (The UPDATE throwing after the INSERT leaves the attestation behind.)
C5_PersistAndFlagAtomic ==
  inflight = {} =>
    \A d \in DOMAIN deposits : deposits[d].processed <=> AttestationsOf(d) # {}

\* C6: a mintAttestation call made for a deposit after an earlier call for it
\* failed in the minting capability is not rejected by the processed guard
\* and, when it returns success, the deposit has exactly one attestation and
\* is processed.
\* (A retry that overlaps another call for the deposit leaves two, with no
\* SQLite statement throwing: C1.)
C6_RetryEndsWithOne ==
  ( /\ last.op = "resume"
    /\ faults = 0
    /\ last.retry
    /\ last.results[1].success )
  => ( /\ Cardinality(AttestationsOf(last.id)) = 1
       /\ deposits[last.id].processed )

\* C7: the processed flag of a stored deposit never goes back from true to
\* false, and no stored deposit disappears, whatever events (a repeated
\* identifier included) and mint calls follow: no step reverts a flag.
C7_ProcessedNeverReverts ==
  last.effect.reverted = {}

C7_Witness ==
  /\ last.op = "deposit"
  /\ ~last.inserted
  /\ last.id \in DOMAIN deposits
  /\ deposits[last.id].processed

\* C8: an event that passes the Verifier and shares its transaction
\* reference and identifier with no previously ingested deposit is broadcast
\* as verified (valid = true).
\* (The handler's SELECT returns the row it has just inserted.)
C8_FirstValidIsVerified ==
  ( /\ last.op = "deposit"
    /\ last.inserted
    /\ ~last.threw
    /\ last.verdict = "valid"
    /\ ~last.prior )
  => \E i \in DOMAIN last.emitted : last.emitted[i] = VerifiedNote(last.id, TRUE, NoReason)

\* C9: in mock mode, once no call is in progress, every deposit whose event
\* was valid and first with its identifier and transaction reference has an
\* attestation, is processed and has been announced as minted (no SQLite
\* statement having thrown).
C9_EndToEndAutoMint ==
  ( config.mode = "mock" /\ inflight = {} /\ faults = 0 )
  => \A d \in eligible :
       /\ AttestationsOf(d) # {}
       /\ deposits[d].processed
       /\ \E n \in notified : n.event = "attestation:minted" /\ n.depositId = d

VerifierReasons ==
  { "Amount must be greater than 0", "Deposit timestamp too old",
    "Deposit timestamp in future", "Invalid wallet address", "Rate limit exceeded" }

\* C10: when the Verifier rejects an event, the handler broadcasts the
\* deposit and then a verification result with valid = false and the
\* Verifier's reason, and stops: no duplicate check, no mintAttestation call,
\* no 'attestation:minted' notification, no attestation written.
C10_RejectedStops ==
  ( last.op = "deposit" /\ last.verdict = "invalid" )
  => ( /\ Len(last.emitted) = 2
       /\ last.emitted[1].event = "deposit:new"
       /\ last.emitted[2] = VerifiedNote(last.id, FALSE, last.reason)
       /\ last.reason \in VerifierReasons
       /\ ~last.dupChecked
       /\ last.minter = "none"
       /\ last.results = << >>
       /\ last.effect.started = {}
       /\ last.effect.added = {} )

C10_Witness ==
  /\ last.op = "deposit"
  /\ last.verdict = "invalid"
  /\ last.reason = "Amount must be greater than 0"
  /\ last.effect.changed = {last.id}

\* The five checks of verify(), in the order of the contract, and the
\* reason each gives.
CheckOrder ==
  << "Amount must be greater than 0", "Deposit timestamp too old",
     "Deposit timestamp in future", "Invalid wallet address", "Rate limit exceeded" >>

\* The checks a deposit fails at time t when recent calls for its wallet
\* were accepted within the last window.
FailedChecks(deposit, t, recent) ==
  { i \in 1 .. 5 :
      \/ i = 1 /\ deposit.amount <= 0
      \/ i = 2 /\ t - deposit.timestamp > FRESHNESS_MS
      \/ i = 3 /\ deposit.timestamp - t > FUTURE_SKEW_MS
      \/ i = 4 /\ Len(deposit.wallet) < MIN_WALLET_LENGTH
      \/ i = 5 /\ recent >= MAX_EVENTS_PER_WINDOW }

Earliest(checks) == CHOOSE i \in checks : \A j \in checks : i <= j

\* C11: verify() returns the reason of the first check that fails, in the
\* order amount, too-old timestamp, future timestamp, wallet format, rate
\* limit; a deposit failing several checks is reported with the earliest.
C11_FirstFailingCheck ==
  ( last.op = "verify" /\ FailedChecks(last.arg[1], now, last.recent) # {} )
  => ( /\ last.verdict = "invalid"
       /\ last.reason = CheckOrder[Earliest(FailedChecks(last.arg[1], now, last.recent))] )

C11_Witness ==
  /\ last.op = "verify"
  /\ FailedChecks(last.arg[1], now, last.recent) = {1, 2, 5}
  /\ last.reason = "Amount must be greater than 0"

\* C12: with the rate limit not reached, verify() returns valid exactly
\* when amount > 0, the timestamp is at most 24 hours old and at most 60
\* seconds ahead (both limits included) and the wallet has at least 20
\* characters.
C12_ValidExactlyWhen ==
  ( last.op = "verify" /\ last.recent < MAX_EVENTS_PER_WINDOW )
  => ( last.verdict = "valid"
       <=> ( /\ last.arg[1].amount > 0
             /\ now - last.arg[1].timestamp <= 24 * 60 * 60 * 1000
             /\ last.arg[1].timestamp - now <= 60 * 1000
             /\ Len(last.arg[1].wallet) >= 20 ) )

C12_Witness ==
  /\ last.op = "verify"
  /\ last.verdict = "valid"
  /\ now - last.arg[1].timestamp = 24 * 60 * 60 * 1000
  /\ last.recent = 9

\* C13: for every wallet, among the verify() calls that returned valid, any
\* eleven span at least 60 seconds: no window of 60 seconds holds more than
\* 10 of them.
C13_AtMostTenPerWindow ==
  \A w \in DOMAIN accepted :
    \A i \in DOMAIN accepted[w] :
      i + 10 \in DOMAIN accepted[w] => accepted[w][i + 10] - accepted[w][i] >= 60000

C13_Witness ==
  /\ WalletA \in DOMAIN accepted
  /\ Len(accepted[WalletA]) = 11
  /\ accepted[WalletA][11] - accepted[WalletA][2] = 59999
  /\ accepted[WalletA][11] - accepted[WalletA][1] = 60000

\* C14: an otherwise-valid call for a wallet that has had 10 calls accepted
\* within the last 60 seconds fails with the rate-limit reason; an
\* otherwise-valid call for a wallet with fewer than 10 acceptances in the
\* last 60 seconds succeeds, however many calls were rejected since.
C14_LimitAndRecovery ==
  ( last.op = "verify" /\ FailedChecks(last.arg[1], now, 0) = {} )
  => ( /\ last.recent >= 10 => last.verdict = "invalid" /\ last.reason = "Rate limit exceeded"
       /\ last.recent < 10 => last.verdict = "valid" /\ last.reason = NoReason )

C14_Witness ==
  /\ last.op = "verify"
  /\ last.verdict = "valid"
  /\ last.arg[1].wallet = WalletA
  /\ Len(accepted[WalletA]) = 11
  /\ accepted[WalletA][10] = StartTime
  /\ now = StartTime + 60000
  /\ verifyCalls = 13
  /\ otherCalls = 0

Thresholds(tiers) == { tiers[i].threshold : i \in DOMAIN tiers }
Reached(amount, tiers) == { t \in Thresholds(tiers) : t <= amount }
Greatest(set) == CHOOSE t \in set : \A u \in set : u <= t

\* C15: classify(amount, tiers) returns a tier of the table whose threshold
\* is the greatest one <= amount, with bucketedAmount that threshold and
\* originalAmount the input; an amount >= the highest threshold gets the
\* highest tier.
C15_GreatestThresholdWins ==
  ( last.op = "classify" /\ Reached(last.arg[1], last.arg[2]) # {} )
  => LET amount == last.arg[1]
         tiers == last.arg[2]
         result == last.results[1]
     IN /\ result.amount = Greatest(Reached(amount, tiers))
        /\ \E i \in DOMAIN tiers :
             tiers[i].name = result.tier /\ tiers[i].threshold = result.amount
        /\ result.originalAmount = amount
        /\ amount >= Greatest(Thresholds(tiers)) => result.amount = Greatest(Thresholds(tiers))

C15_Witness ==
  /\ last.op = "classify"
  /\ last.arg = << 99, << [name |-> "Tier C", threshold |-> 1],
                         [name |-> "Tier A", threshold |-> 100],
                         [name |-> "Tier B", threshold |-> 10] >> >>
  /\ last.results[1].tier = "Tier B"

Reorderings(seq) ==
  { [i \in DOMAIN seq |-> seq[p[i]]] :
      p \in { f \in [DOMAIN seq -> DOMAIN seq] : \A i, j \in DOMAIN seq : f[i] = f[j] => i = j } }

\* C16: classify() returns the same result for every permutation of the
\* tier table, tables with two differently named tiers of one threshold
\* included.
\* (The sort is stable: of two tiers with one threshold, the one listed
\* first wins.)
C16_OrderIndependent ==
  last.op = "classify" =>
    \A other \in Reorderings(last.arg[2]) :
      getPrivacyTier(last.arg[1], other) = last.results[1]

\* C17: for an amount below every threshold of the table (negative amounts
\* and the empty table included) classify() returns 'No Tier' with
\* bucketedAmount 0 and originalAmount the input.
C17_BelowLowestIsNoTier ==
  ( last.op = "classify" /\ Reached(last.arg[1], last.arg[2]) = {} )
  => last.results = << [tier |-> "No Tier", amount |-> 0, originalAmount |-> last.arg[1]] >>

C17_Witness ==
  /\ last.op = "classify"
  /\ last.arg[1] = -5
  /\ Len(last.arg[2]) = 2
  /\ 0 \in Thresholds(last.arg[2])
  /\ last.results[1].tier = "No Tier"

TierOf(d) == getPrivacyTier(deposits[d].amount, Tiers).tier

\* C18: the attestation does not reveal the exact amount.  Every field of a
\* persisted attestation and of an 'attestation:minted' notification is a
\* generated identifier or timestamp, the request's recipient, or the
\* deposit's identifier, wallet or tier: two runs that differ only in an
\* amount within one tier produce the same record and notification.
C18_AmountNotRevealed ==
  /\ \A a \in attestations :
       a = [ id |-> a.id, deposit_id |-> a.deposit_id, wallet |-> deposits[a.deposit_id].wallet,
             tier |-> TierOf(a.deposit_id), token_id |-> a.token_id,
             metadata |-> [ depositId |-> a.deposit_id, tier |-> TierOf(a.deposit_id),
                            timestamp |-> a.metadata.timestamp ] ]
  /\ \A n \in notified :
       n.event = "attestation:minted"
       => /\ n = MintedNote(n.depositId, n.address, TierOf(n.depositId), n.tokenId)
          /\ n.address \in Addresses
          /\ \E a \in attestations : a.token_id = n.tokenId

C18_Witness ==
  \E a, b \in attestations :
    /\ deposits[a.deposit_id].amount = 150
    /\ deposits[b.deposit_id].amount = 100
    /\ a.tier = b.tier
    /\ a.wallet = b.wallet
    /\ \E n, m \in notified :
         /\ n.event = "attestation:minted" /\ n.depositId = a.deposit_id
         /\ m.event = "attestation:minted" /\ m.depositId = b.deposit_id
         /\ n.tier = m.tier
         /\ n.address = m.address

\* C19: isDuplicate(candidate, priorDeposits) is true exactly when a prior
\* deposit has the candidate's transaction reference or its identifier:
\* true on a shared transaction reference with different identifiers, false
\* when both are disjoint and for the empty collection.
C19_DuplicateExactlyWhen ==
  last.op = "checkDuplicate" =>
    LET candidate == last.arg[1]
        priors == last.arg[2]
        sameTx == { p.id : p \in { q \in priors : q.txid = candidate.txid } }
        sameId == { p.txid : p \in { q \in priors : q.id = candidate.id } }
    IN last.results = << sameTx # {} \/ sameId # {} >>

C19_Witness ==
  /\ last.op = "checkDuplicate"
  /\ last.results = << TRUE >>
  /\ Cardinality(last.arg[2]) = 2
  /\ \A p \in last.arg[2] : p.id # last.arg[1].id
  /\ \E p \in last.arg[2] : p.txid = last.arg[1].txid

\* C20: an authorised forceMint request is rejected with 'Deposit not found'
\* when no stored deposit has the identifier and with 'Deposit already
\* processed' when the stored deposit is processed; in both cases, and when
\* the lookup throws, the minting capability is not invoked and neither
\* table changes.
C20_ForceMintRejections ==
  ( last.op = "forceMint" /\ last.arg = << AdminApiKey >> )
  => ( /\ ( ~last.threw /\ last.id \notin DOMAIN deposits )
          => last.responses = << Response(404, "Deposit not found") >>
       /\ ( ~last.threw /\ last.id \in DOMAIN deposits /\ deposits[last.id].processed )
          => last.responses = << Response(400, "Deposit already processed") >>
       /\ ( last.threw \/ last.id \notin DOMAIN deposits \/ deposits[last.id].processed )
          => ( /\ last.minter = "none"
               /\ last.effect.started = {}
               /\ NoTableChange(last.effect) ) )

C20_Witness ==
  /\ last.op = "forceMint"
  /\ last.arg = << AdminApiKey >>
  /\ last.id \in DOMAIN deposits
  /\ deposits[last.id].processed
  /\ last.responses = << Response(400, "Deposit already processed") >>
  /\ \E d \in DepositIds : d \notin DOMAIN deposits

\* C21: a forceMint request without the configured administrative
\* credential is answered 401 Unauthorized before any lookup: no SELECT
\* runs, the minting capability is not invoked, no attestation is written,
\* no processed flag changes and nothing is broadcast.
C21_UnauthorizedIsInert ==
  ( last.op = "forceMint" /\ last.arg # << AdminApiKey >> )
  => ( /\ last.responses = << Response(401, "Unauthorized") >>
       /\ ~last.threw
       /\ last.minter = "none"
       /\ last.results = << >>
       /\ last.effect.started = {}
       /\ NoTableChange(last.effect)
       /\ last.emitted = << >> )

C21_Witness ==
  /\ last.op = "forceMint"
  /\ last.arg = << "wrong-key" >>
  /\ last.id \in DOMAIN deposits
  /\ ~deposits[last.id].processed
  /\ AttestationsOf(last.id) = {}

VerificationResults(seq) == { i \in DOMAIN seq : seq[i].event = "deposit:verified" }

\* C22: every incoming deposit event, one that repeats the identifier of a
\* stored deposit included, has its deposit persisted unprocessed, a
\* 'deposit:new' notification broadcast and then exactly one
\* 'deposit:verified' notification (no SQLite statement failing for any
\* other reason than the event itself).
\* (The INSERT of a repeated identifier violates the primary key: the
\* handler logs the error and broadcasts nothing.)
C22_EveryEventIsAnnounced ==
  ( last.op = "deposit" /\ faults = 0 )
  => ( /\ last.inserted
       /\ last.id \in DOMAIN deposits
       /\ Len(last.emitted) >= 2
       /\ last.emitted[1].event = "deposit:new"
       /\ last.emitted[1].depositId = last.id
       /\ VerificationResults(last.emitted) = {2}
       /\ last.emitted[2].depositId = last.id )

Stage(note) ==
  IF note.event = "deposit:new" THEN 1 ELSE IF note.event = "deposit:verified" THEN 2 ELSE 3

ReportedDuplicate(d) ==
  \E n \in notified :
    n.event = "deposit:verified" /\ n.depositId = d /\ n.reason = "Duplicate deposit"

\* C23: notifications for a deposit come in stage order.  Within one
\* handler run 'deposit:new' precedes 'deposit:verified', which precedes
\* 'attestation:minted', none twice; and whenever 'attestation:minted' has
\* been broadcast for a deposit, a 'deposit:verified' with valid = true has
\* been broadcast for it.
\* (forceMint mints and announces a deposit that the Verifier rejected; the
\* deposits that the duplicate check of C8 misreports are left aside.)
C23_StageOrder ==
  /\ \A i, j \in DOMAIN last.emitted : i < j => Stage(last.emitted[i]) < Stage(last.emitted[j])
  /\ \A n \in notified :
       ( n.event = "attestation:minted" /\ ~ReportedDuplicate(n.depositId) )
       => \E v \in notified :
            v.event = "deposit:verified" /\ v.depositId = n.depositId /\ v.valid

SomeFailure ==
  \/ faults > 0
  \/ capFailed # {}
  \/ \E n \in notified : n.event = "deposit:verified" /\ ~n.valid

\* C24: no failure stops the pipeline.  After a verification failure, a
\* duplicate, a failure of the minting capability or a throwing SQLite
\* statement the process keeps running and handles the events that follow,
\* and a mint that failed is returned to its caller as a failure result
\* carrying the error message.
C24_FailuresDoNotStop ==
  /\ SomeFailure => phase = "running"
  /\ ( last.op = "deposit" /\ delivered > 1 ) => ( last.inserted \/ last.threw )
  /\ ( last.op = "resume" /\ ~last.results[1].success )
     => ( /\ last.results[1].error \in CapErrors \cup {DbError}
          /\ last.results[1] = Failure(last.results[1].error)
          /\ last.minter = "force" => last.responses = << Response(500, last.results[1].error) >> )

C24_Witness ==
  /\ last.op = "deposit"
  /\ delivered = 2
  /\ faults = 1
  /\ capFailed # {}
  /\ ~last.threw
  /\ last.inserted
  /\ Len(last.emitted) = 2

\* A required endpoint, contract address or credential of the selected mode
\* is missing.
RequiredMissing ==
  IF config.mode = "ethereum"
  THEN ~(config.rpcUrl /\ config.contractAddress /\ config.privateKey)
  ELSE config.mode = "solana" /\ ~config.solanaRpcUrl

NothingHandled ==
  /\ delivered = 0
  /\ requested = 0
  /\ deposits = << >>
  /\ attestations = {}
  /\ notified = {}
  /\ inflight = {}

\* C25: when a required endpoint, contract address or credential of the
\* selected mode is missing, the process never runs: start() ends it, no
\* deposit event or request is handled, no deposit is persisted and nothing
\* is broadcast.
C25_FailedStartupHandlesNothing ==
  /\ RequiredMissing => ( phase # "running" /\ NothingHandled )
  /\ phase = "exited" => ( RequiredMissing /\ NothingHandled )

C25_Witness ==
  /\ phase = "exited"
  /\ config.mode = "ethereum"
  /\ config.rpcUrl /\ config.contractAddress /\ ~config.privateKey
  /\ last.op = "start"

\* C26: at no time are two mint attempts for one deposit awaiting the
\* minting capability.
\* (POST /api/mint reads the processed flag before the await: in ethereum
\* mode a second request for the deposit starts a second attempt while the
\* first is still in flight.)
C26_OneAttemptInFlight ==
  \A c1, c2 \in inflight : c1.deposit.id = c2.deposit.id => c1 = c2

Transfers == {"transferFrom", "safeTransferFrom"}
Mints == {"mintAttestation", "mintTier"}

\* C27: tokens are soulbound.  Every token is still owned by the recipient
\* of its mint, and every transferFrom / safeTransferFrom between two
\* non-zero addresses reverts and writes nothing, whether the holder, an
\* approved spender, an operator or anyone else sends it.
C27_Soulbound ==
  /\ \A t \in DOMAIN issued : OwnerOf(chain, t) = issued[t]
  /\ DOMAIN chain.owners = DOMAIN issued
  /\ ( last.op \in Transfers /\ last.arg[1].nonZero )
     => ( last.threw /\ last.wrote = {} )

C27_Witness ==
  /\ last.op = "safeTransferFrom"
  /\ last.arg[1].nonZero
  /\ last.reason = "Token is soulbound and cannot be transferred"
  /\ issued = (0 :> User1 @@ 1 :> User2)
  /\ Approved(chain, 0) = User2
  /\ << User1, User2 >> \in chain.operatorApprovals

\* C28: only the contract owner mints.  mintAttestation and mintTier sent
\* by any other account revert and leave the token counter, the ownership
\* of tokens and the tokens mapping (and the rest of the storage) unchanged.
C28_OnlyOwnerMints ==
  ( last.op \in Mints /\ ~last.arg[1].byOwner )
  => ( /\ last.threw
       /\ last.reason = "OwnableUnauthorizedAccount"
       /\ last.wrote = {}
       /\ last.results = << >> )

C28_Witness ==
  /\ last.op = "mintTier"
  /\ ~last.arg[1].byOwner
  /\ last.threw
  /\ chain.owner = User1
  /\ chain.tokenIdCounter = 1
  /\ chain.tokens = {0}

\* C29: verifyDeposit adds a timestamp to the per-wallet ledger only when
\* it returns valid.  A call rejected for amount, timestamp, wallet format
\* or rate limit adds no timestamp for any wallet, a valid call adds one for
\* its own wallet only, and so every timestamp in the ledger is the time
\* of a call that returned valid for that wallet.
C29_LedgerGrowsOnValidOnly ==
  /\ ( last.op = "verify" /\ last.verdict = "invalid" ) => last.wrote = {}
  /\ ( last.op = "verify" /\ last.verdict = "valid" ) => last.wrote = { last.arg[1].wallet }
  /\ \A w \in DOMAIN rateLimitMap :
       \A i \in DOMAIN rateLimitMap[w] :
         Occurrences(rateLimitMap, w, rateLimitMap[w][i])
           <= Occurrences(accepted, w, rateLimitMap[w][i])

C29_Witness ==
  /\ last.op = "verify"
  /\ last.verdict = "invalid"
  /\ last.reason = "Rate limit exceeded"
  /\ Len(rateLimitMap[WalletA]) = MAX_EVENTS_PER_WINDOW
  /\ WalletB \in DOMAIN rateLimitMap

\* The timestamps of the ledger that are a whole window old or older.
Stale ==
  UNION { { rateLimitMap[w][i] : i \in { j \in DOMAIN rateLimitMap[w] :
                                           now - rateLimitMap[w][j] >= RATE_LIMIT_WINDOW_MS } }
          : w \in DOMAIN rateLimitMap }

\* C30: immediately after any verifyDeposit call, whatever its result, the
\* ledger holds no timestamp that is 60 seconds old or older.
C30_PrunedOnEveryCall ==
  last.op = "verify" => Stale = {}

\* The stored deposits of one transaction reference that have been
\* broadcast as verified.
VerifiedOf(txid) ==
  { d \in DOMAIN deposits :
      /\ deposits[d].txid = txid
      /\ VerifiedNote(d, TRUE, NoReason) \in notified }

\* C31: among the deposit events that share a transaction reference at most
\* one is ever broadcast as verified (valid = true), and the handler invokes
\* the minter for an event only in the run that broadcasts it as verified,
\* so at most one of them is auto-minted; the handlers run one after the
\* other up to the await of mintAttestation, so this covers every
\* interleaving.
C31_OneVerifiedPerTransaction ==
  /\ \A txid \in TxIds : Cardinality(VerifiedOf(txid)) <= 1
  /\ ( last.op = "deposit" /\ last.minter # "none" )
     => ( /\ VerifiedNote(last.id, TRUE, NoReason) \in Notes(last.emitted)
          /\ VerifiedOf(last.txid) = {last.id} )

C31_Witness ==
  /\ last.op = "deposit"
  /\ last.verdict = "valid"
  /\ last.inserted
  /\ last.reason = "Duplicate deposit"
  /\ config.mode = "mock"
  /\ \A d \in DepositIds : d \in DOMAIN deposits /\ deposits[d].txid = last.txid
                           /\ deposits[d].amount > 0

\* C32: in every 'attestation:minted' notification the address is the
\* wallet of the stored deposit it names, which is also the wallet of the
\* attestations persisted for that deposit, for auto-mint and for
\* POST /api/mint with any address in its body.
\* (POST /api/mint broadcasts the address of the request body.)
C32_RecipientIsOriginWallet ==
  \A n \in notified :
    n.event = "attestation:minted"
    => ( /\ n.depositId \in DOMAIN deposits
         /\ n.address = deposits[n.depositId].wallet
         /\ \A a \in AttestationsOf(n.depositId) : a.wallet = n.address )

RejectedDeposits ==
  { n.depositId : n \in { v \in notified : /\ v.event = "deposit:verified"
                                            /\ ~v.valid
                                            /\ v.reason \in VerifierReasons } }

\* C35: no attestation is persisted for a deposit whose verification result
\* was valid = false: no sequence of events and POST /api/mint requests
\* leaves an attestation that references a deposit the Verifier rejected.
\* (POST /api/mint checks only that the deposit exists and is unprocessed.
\* The results 'Duplicate deposit' are left aside here: C8.)
C35_AttestedDepositsWereVerified ==
  \A a \in attestations : a.deposit_id \notin RejectedDeposits

MintedNotes(set) == { n \in set : n.event = "attestation:minted" }

\* C36: 'attestation:minted' is broadcast only after the attestation is
\* persisted and the processed flag is set.  For every such notification
\* the attestations table holds a row with the notified deposit
\* identifier, tier and token identifier and the deposit is processed; and
\* the step that broadcasts it is the one that added that row.
C36_MintedMeansPersisted ==
  /\ \A n \in MintedNotes(notified) :
       /\ \E a \in attestations :
            a.deposit_id = n.depositId /\ a.tier = n.tier /\ a.token_id = n.tokenId
       /\ n.depositId \in DOMAIN deposits
       /\ deposits[n.depositId].processed
  /\ \A n \in MintedNotes(Notes(last.emitted)) :
       \E a \in last.effect.added :
         a.deposit_id = n.depositId /\ a.tier = n.tier /\ a.token_id = n.tokenId

C36_Witness ==
  /\ last.op = "resume"
  /\ MintedNotes(Notes(last.emitted)) # {}
  /\ last.effect.flagged = {last.id}
  /\ faults = 1
  /\ Cardinality(MintedNotes(notified)) = 2

\* C37: rate limiting is isolated per wallet.  A verifyDeposit call is
\* rejected with 'Rate limit exceeded' only when ten calls for its own
\* wallet returned valid less than a window ago, whatever was accepted for
\* other wallets; it adds a timestamp to no entry but its own wallet's, and
\* it removes no timestamp that is less than a window old from any entry.
C37_PerWalletIsolation ==
  last.op = "verify"
  => ( /\ last.reason = "Rate limit exceeded" => last.recent >= MAX_EVENTS_PER_WINDOW
       /\ last.wrote \subseteq { last.arg[1].wallet }
       /\ last.lost = {} )

C37_Witness ==
  /\ last.op = "verify"
  /\ last.arg[1].wallet = WalletB
  /\ last.verdict = "valid"
  /\ WalletA \in DOMAIN rateLimitMap
  /\ Len(rateLimitMap[WalletA]) = MAX_EVENTS_PER_WINDOW
  /\ rateLimitMap[WalletB] = << now >>
  /\ ticks > 0

\* C38: token identifiers are assigned sequentially from 0 and never
\* reused.  After k successful mints (mintAttestation and mintTier in any
\* order, reverted calls in between) the identifiers returned are 0 .. k-1,
\* totalSupply() is k, exists(id) is true exactly for 0 .. k-1, and a
\* successful mint returns the number of mints that succeeded before it.
C38_SequentialTokenIds ==
  LET k == Cardinality(DOMAIN issued)
  IN /\ DOMAIN issued = 0 .. k - 1
     /\ totalSupply(chain) = k
     /\ \A id \in TokenIds : exists(chain, id) <=> id \in 0 .. k - 1
     /\ ( last.op \in Mints /\ ~last.threw ) => last.results = << k - 1 >>
     /\ ( last.op \in Mints /\ last.threw ) => "tokenIdCounter" \notin last.wrote

C38_Witness ==
  /\ last.op = "mintTier"
  /\ ~last.threw
  /\ last.results = << 1 >>
  /\ totalSupply(chain) = 2
  /\ exists(chain, 0) /\ exists(chain, 1) /\ ~exists(chain, 2)
  /\ chain.owner = User1

\* Whether the last verifyDeposit call got as far as the rate-limit step.
ReachedRateLimit ==
  last.op = "verify" /\ ( last.verdict = "valid" \/ last.reason = "Rate limit exceeded" )

\* C39: in every reachable state the rate-limit map holds at most 10
\* timestamps per wallet, and after every verifyDeposit call that reaches
\* the rate-limit step it holds no wallet with an empty list of timestamps.
C39_LedgerShape ==
  /\ \A w \in DOMAIN rateLimitMap : Len(rateLimitMap[w]) <= MAX_EVENTS_PER_WINDOW
  /\ ReachedRateLimit => \A w \in DOMAIN rateLimitMap : rateLimitMap[w] # << >>

C39_Witness ==
  /\ ReachedRateLimit
  /\ last.reason = "Rate limit exceeded"
  /\ Len(rateLimitMap[WalletA]) = MAX_EVENTS_PER_WINDOW
  /\ WalletB \in DOMAIN accepted
  /\ WalletB \notin DOMAIN rateLimitMap

====
